---- MODULE Spec2Model ----
(***************************************************************************)
(* Gantt task-list backend (src/main.go).  The repository holds two        *)
(* variants of the same program: the flat-file variant (gantt.json,        *)
(* src/main.go lines 1-229) and the relational variant (SQLite table       *)
(* tasks, src/main.go lines 231-476).  A run of the model is a run of one  *)
(* of the two programs, chosen in Init (variable variant).                 *)
(*                                                                         *)
(* Goroutines: "main" runs main(); "g1", "g2" are the goroutines net/http  *)
(* starts per request once main listens.  Every access to shared state     *)
(* (the file, dataMutex, the database) is a step of its own; computation   *)
(* on locals is folded into the step that precedes it.                     *)
(***************************************************************************)
EXTENDS Integers, Sequences, FiniteSets, TLC

\* ------------------------------------------------------------------- tasks

\* type Task struct (Go field names).
Task(id, name, start, dur, color, prio) ==
    [ID |-> id, Name |-> name, Start |-> start, DurationDays |-> dur,
     Color |-> color, Priority |-> prio]

\* The zero value of Task.
ZeroTask == Task(0, "", "", 0, "", 0)

\* A Go slice of Task: the nil slice and the empty slice differ.
NilSlice == [isNil |-> TRUE, items |-> <<>>]
Slice(s) == [isNil |-> FALSE, items |-> s]

\* formatDate(start.AddDate(0, 0, n)) with start = January 1st of next year:
\* the day stays in January for the offsets used (n <= 24), "NY" is next year.
FormatDate(n) ==
    "NY-01-" \o (IF n + 1 < 10 THEN "0" ELSE "") \o ToString(n + 1)

\* getInitialTasks() with its last task left out.
getInitialTasksFour ==
    Slice(<< Task(1, "requirements gathering", FormatDate(0),  7,  "#3B82F6", 4),
             Task(2, "system design",          FormatDate(7),  5,  "#F97316", 2),
             Task(3, "backend development",    FormatDate(12), 12, "#EF4444", 1),
             Task(4, "frontend development",   FormatDate(12), 10, "#FBBF24", 3) >>)

\* getInitialTasks(): names are English glosses of the source's Chinese names
\* (xu qiu shou ji, xi tong she ji, hou duan kai fa, qian duan kai fa,
\* zheng he ce shi).
getInitialTasks ==
    Slice(<< Task(1, "requirements gathering", FormatDate(0),  7,  "#3B82F6", 4),
             Task(2, "system design",          FormatDate(7),  5,  "#F97316", 2),
             Task(3, "backend development",    FormatDate(12), 12, "#EF4444", 1),
             Task(4, "frontend development",   FormatDate(12), 10, "#FBBF24", 3),
             Task(5, "integration testing",    FormatDate(24), 8,  "#10B981", 5) >>)

\* getTestTasks() of the test file; TaskC shares id 101 with the first of
\* them and priority 1 with the second.
getTestTasks ==
    << Task(101, "test task A", "2026-02-01", 3, "#AAAAAA", 5),
       Task(102, "test task B", "2026-02-04", 2, "#BBBBBB", 1) >>
TaskA == getTestTasks[1]
TaskB == getTestTasks[2]
TaskC == Task(101, "test task C", "2026-02-06", 1, "#CCCCCC", 1)

\* The collections a client sends: none (JSON null), the empty one, the two
\* test tasks, two tasks with one id, two tasks with one priority.
Collections ==
    { NilSlice, Slice(<<>>), Slice(<< TaskA, TaskB >>),
      Slice(<< TaskA, TaskC >>), Slice(<< TaskC, TaskB >>) }

IDs(items) == { items[i].ID : i \in 1..Len(items) }

\* ----------------------------------------------------- JSON documents

\* A document is a sequence of tokens; an object token carries its members
\* under the json tags of Task.
Obj(t) ==
    [id |-> t.ID, name |-> t.Name, start |-> t.Start,
     durationDays |-> t.DurationDays, color |-> t.Color, priority |-> t.Priority]
Tok(kind) == [t |-> kind, o |-> Obj(ZeroTask)]
ObjTok(t) == [t |-> "obj", o |-> Obj(t)]

\* json.MarshalIndent(tasks, "", "  ") of a []Task: null for the nil slice,
\* else the array of the objects in slice order.  It has no error for []Task.
Marshal(tasks) ==
    IF tasks.isNil THEN << Tok("null") >>
    ELSE << Tok("[") >>
         \o [ i \in 1..Len(tasks.items) |-> ObjTok(tasks.items[i]) ]
         \o << Tok("]") >>

\* FromObj with the tag of DurationDays misspelt: the member is not matched
\* and the field keeps its zero value.
FromObjTagTypo(o) ==
    Task(o.id, o.name, o.start, 0, o.color, o.priority)

\* The Task a JSON object decodes to (members matched by json tag).
FromObj(o) ==
    Task(o.id, o.name, o.start, o.durationDays, o.color, o.priority)

\* json.Unmarshal(data, &tasks) with tasks a nil []Task before the call:
\* null leaves the slice nil, an array fills it in document order (an object
\* gives its Task, a null element the zero Task); a member of the wrong JSON
\* type ("badobj"), a value that is no array, and a document that is no
\* JSON text at all (empty, truncated, "junk") are errors.
Unmarshal(data) ==
    LET n == Len(data) IN
    IF data = << Tok("null") >> THEN [err |-> FALSE, tasks |-> NilSlice]
    ELSE IF /\ n >= 2
            /\ data[1].t = "["
            /\ data[n].t = "]"
            /\ \A i \in 2..(n - 1) : data[i].t \in {"obj", "null"}
         THEN [err |-> FALSE,
               tasks |-> Slice([ i \in 1..(n - 2) |->
                                   IF data[i + 1].t = "obj"
                                   THEN FromObj(data[i + 1].o) ELSE ZeroTask ])]
         ELSE [err |-> TRUE, tasks |-> NilSlice]

\* Request bodies json.Unmarshal rejects: no JSON text, a JSON object in
\* place of the array, an array holding an object with a mistyped member.
BadBodies ==
    { << Tok("junk") >>,
      << Tok("obj") >>,
      << Tok("["), Tok("badobj"), Tok("]") >> }

\* The bodies a client posts.
Bodies == { Marshal(c) : c \in Collections } \cup BadBodies

\* ------------------------------------------------------------------- state

Procs == {"main", "g1", "g2"}
Handlers == Procs \ {"main"}

VARIABLES
    variant,    \* "file" or "db": which of the two programs runs
    file,       \* gantt.json: [exists, bytes]
    dataMutex,  \* holder of dataMutex, or "none"
    dbRows,     \* committed rows of table tasks
    dbWriter,   \* goroutine whose transaction holds the database write lock
    g,          \* per goroutine: position, locals, response
    lastSaved,  \* history: argument of the last ReplaceAll that succeeded with
                \* no other ReplaceAll in flight then or since
    everSaved   \* history: some ReplaceAll has succeeded

vars == << variant, file, dataMutex, dbRows, dbWriter, g, lastSaved, everSaved >>

Unknown == [known |-> FALSE, tasks |-> NilSlice]
Known(c) == [known |-> TRUE, tasks |-> c]

NoFile == [exists |-> FALSE, bytes |-> <<>>]

\* A goroutine that runs nothing.
Blank(pc) ==
    [pc |-> pc,             \* position
     method |-> "",         \* r.Method, or "MAIN" for main()
     branch |-> "",         \* case of switch r.Method taken, or "MAIN"
     saveFrom |-> "",       \* caller of the save in progress
     data |-> <<>>,         \* data of loadTasksFromFile
     current |-> NilSlice,  \* result of the Load
     tasks |-> NilSlice,    \* argument of the ReplaceAll
     query |-> <<>>,        \* queryID of the DELETE branch
     taskID |-> 0,          \* taskID of the DELETE branch
     i |-> 0,               \* tasks inserted so far by saveTasksToDB
     txOpen |-> FALSE,      \* tx of saveTasksToDB is begun and not ended
     txRows |-> {},         \* the table as tx sees it
     loadErr |-> FALSE,     \* err of the Load
     saveErr |-> FALSE,     \* err of the ReplaceAll
     code |-> 0,            \* HTTP status written, 0 before
     body |-> NilSlice,     \* collection encoded into the response
     \* history, read by no action:
     fault |-> "none",      \* environment fault that hit this request
     expect |-> Unknown,    \* lastSaved when the Load read the store
     afterSave |-> FALSE,   \* everSaved when the Load or Init was called
     fresh |-> FALSE,       \* the Load or Init found no file, no row
     torn |-> FALSE,        \* the Load read the file between the open and
                            \* the write of a ReplaceAll in progress
     wrote |-> FALSE,       \* this request wrote to the store
     read |-> FALSE,        \* this request read the store
     staleBy |-> Unknown,   \* DELETE: the collection of a POST that succeeded
                            \* after this request read the store and before
                            \* it wrote
     ops |-> <<>>,          \* statements saveTasksToDB has executed
     before |-> [file |-> NoFile, rows |-> {}]]
                            \* the store when the POST called ReplaceAll

SavePcs == {"save_lock", "save_open", "save_write",
            "tx_begin", "tx_delete", "tx_prepare", "tx_insert", "tx_commit"}

Serving == g["main"].pc = "listen"

\* A response is taken off its goroutine as soon as it is written (Finish):
\* the other goroutines take their next steps after that.
NoneDone == \A q \in Procs : g[q].pc \notin {"done", "loaded"}

\* History bookkeeping of a step of p that leaves it as new; saved tells
\* whether the step is the successful return of a ReplaceAll of new.tasks.
Enters(p, new) ==
    new.pc \in {"save_lock", "tx_begin"} /\ g[p].pc \notin {"save_lock", "tx_begin"}
Step(p, new, saved) ==
    /\ g' = [q \in Procs |->
               IF q = p THEN new
               ELSE IF Enters(p, new) THEN [g[q] EXCEPT !.expect = Unknown]
               ELSE IF /\ saved /\ g[p].saveFrom = "post"
                       /\ g[q].branch = "DELETE" /\ g[q].read /\ ~g[q].wrote
                    THEN [g[q] EXCEPT !.staleBy = Known(g[p].tasks)]
               ELSE g[q]]
    /\ lastSaved' =
         IF Enters(p, new) THEN Unknown
         ELSE IF saved
              THEN IF \A q \in Procs \ {p} : g[q].pc \notin SavePcs
                   THEN Known(g[p].tasks) ELSE Unknown
              ELSE lastSaved
    /\ everSaved' = (everSaved \/ saved)

\* --------------------------------------------------- flat-file handlers

\* http.Error(w, ..., code) / w.WriteHeader(code): the handler returns.
Respond(r, code, body) == [r EXCEPT !.pc = "done", !.code = code, !.body = body]

\* The loop of the DELETE branch with the append done for every task: the
\* match is found and nothing is left out.
DeleteLoopKeepAll(items, i, taskID, acc) ==
    [found |-> \E k \in i..Len(items) : items[k].ID = taskID,
     newTasks |-> acc.newTasks \o SubSeq(items, i, Len(items))]

RECURSIVE DeleteLoop(_, _, _, _)
\* The loop of the DELETE branch over currentTasks from index i on:
\* [found, newTasks].
DeleteLoop(items, i, taskID, acc) ==
    IF i > Len(items) THEN acc
    ELSE DeleteLoop(items, i + 1, taskID,
                    IF items[i].ID # taskID
                    THEN [acc EXCEPT !.newTasks = Append(@, items[i])]
                    ELSE [acc EXCEPT !.found = TRUE])

\* The check of found left out.
NotFoundNever(d) == FALSE

\* if !found, on the result of the loop.
NotFound(d) == ~d.found

\* apiTasksHandler after loadTasksFromFile returned (tasks, err), and main
\* after its initial load.
LoadReturn(r0, tasks, err) ==
    LET r == [r0 EXCEPT !.current = tasks, !.loadErr = err, !.data = <<>>] IN
    CASE r.branch = "MAIN" -> [r EXCEPT !.pc = "loaded"]
      [] r.branch = "GET" ->
           IF err THEN Respond(r, 500, NilSlice) ELSE Respond(r, 200, tasks)
      [] r.branch = "DELETE" ->
           IF err THEN Respond(r, 500, NilSlice)
           ELSE LET d == DeleteLoop(tasks.items, 1, r.taskID,
                                    [found |-> FALSE, newTasks |-> <<>>]) IN
                IF NotFound(d) THEN Respond(r, 404, NilSlice)
                ELSE [r EXCEPT !.pc = "save_lock", !.saveFrom = "delete",
                               !.tasks = Slice(d.newTasks)]

\* The caller of saveTasksToFile after it returned err.
SaveReturn(r0, err) ==
    LET r == [r0 EXCEPT !.saveErr = err] IN
    CASE r.saveFrom = "seed" ->
           IF err THEN LoadReturn(r, NilSlice, TRUE)
           ELSE LoadReturn(r, r.tasks, FALSE)
      [] r.saveFrom = "post" ->
           IF err THEN Respond(r, 500, NilSlice) ELSE Respond(r, 200, NilSlice)
      [] r.saveFrom = "delete" ->
           IF err THEN Respond(r, 500, NilSlice) ELSE Respond(r, 200, NilSlice)

\* strconv.Atoi on the characters of the id query parameter.
Digit(c) ==
    CASE c = "0" -> 0 [] c = "1" -> 1 [] c = "2" -> 2 [] c = "3" -> 3
      [] c = "4" -> 4 [] c = "5" -> 5 [] c = "6" -> 6 [] c = "7" -> 7
      [] c = "8" -> 8 [] c = "9" -> 9 [] OTHER -> -1
RECURSIVE AtoiDigits(_, _, _)
AtoiDigits(s, i, n) ==
    IF i > Len(s) THEN [err |-> FALSE, n |-> n]
    ELSE IF Digit(s[i]) < 0 THEN [err |-> TRUE, n |-> 0]
    ELSE AtoiDigits(s, i + 1, n * 10 + Digit(s[i]))
\* strconv.Atoi with its error dropped (taskID, _ := strconv.Atoi(queryID)).
AtoiErrIgnored(s) == [AtoiDigits(s, 1, 0) EXCEPT !.err = FALSE]

Atoi(s) ==
    IF s = <<>> THEN [err |-> TRUE, n |-> 0]
    ELSE IF s[1] \in {"+", "-"}
         THEN IF Len(s) = 1 THEN [err |-> TRUE, n |-> 0]
              ELSE LET a == AtoiDigits(s, 2, 0) IN
                   IF s[1] = "-" THEN [a EXCEPT !.n = 0 - @] ELSE a
         ELSE AtoiDigits(s, 1, 0)

\* Values of the id query parameter ("" when absent or empty).
Queries ==
    { <<>>, <<"a", "b", "c">>, <<"3", "x">>, <<"-">>,
      <<"3">>, <<"7">>, <<"1", "0", "1">> }

Methods == {"GET", "POST", "DELETE", "PUT"}

\* switch r.Method with a method that has no case handled as a GET.
RouteGetByDefault(v, m) ==
    IF m \in {"GET", "POST"} \/ (v = "file" /\ m = "DELETE") THEN m ELSE "GET"

\* switch r.Method of apiTasksHandler in variant v: the case taken.
Route(v, m) ==
    IF m \in {"GET", "POST"} \/ (v = "file" /\ m = "DELETE") THEN m ELSE "default"

\* ------------------------------------------------- flat-file variant
\* A disjunct marked "fault" is an I/O error of the environment; the request
\* it hits records it in its fault field.

\* main() up to its call of loadTasksFromFile.
FileMainStart ==
    /\ NoneDone
    /\ variant = "file"
    /\ g["main"].pc = "boot"
    /\ Step("main", [g["main"] EXCEPT !.pc = "load_read", !.method = "MAIN",
                                      !.branch = "MAIN",
                                      !.afterSave = everSaved], FALSE)
    /\ UNCHANGED << variant, file, dataMutex, dbRows, dbWriter >>

\* main() after its initial load: the error is printed and, either way,
\* http.ListenAndServe is called.
FileMainListen ==
    /\ variant = "file"
    /\ g["main"].pc = "loaded"
    /\ Step("main", Blank("listen"), FALSE)
    /\ UNCHANGED << variant, file, dataMutex, dbRows, dbWriter >>

\* apiTasksHandler from its entry to its first access to the store: the
\* method switch, and the checks of the POST body and of the DELETE id, for a
\* request whose body is one of bodies and whose id parameter one of queries.
FileRequestOf(p, bodies, queries) ==
    /\ NoneDone
    /\ variant = "file"
    /\ Serving
    /\ g[p].pc = "idle"
    /\ \E m \in Methods :
         LET r == [g[p] EXCEPT !.method = m, !.branch = Route(variant, m),
                               !.afterSave = everSaved] IN
         CASE r.branch = "GET" -> Step(p, [r EXCEPT !.pc = "load_read"], FALSE)
           [] r.branch = "POST" ->
                \/ \E body \in bodies :
                     LET u == Unmarshal(body) IN
                     Step(p, IF u.err THEN Respond([r EXCEPT !.data = body], 400, NilSlice)
                             ELSE [r EXCEPT !.pc = "save_lock", !.saveFrom = "post",
                                            !.data = body, !.tasks = u.tasks,
                                            !.expect = lastSaved,
                                            !.before = [file |-> file, rows |-> dbRows]],
                                  FALSE)
                \/ \* fault: io.ReadAll(r.Body) fails
                   Step(p, Respond([r EXCEPT !.fault = "body"], 400, NilSlice), FALSE)
           [] r.branch = "DELETE" ->
                \E queryID \in queries :
                  LET a == Atoi(queryID) IN
                  Step(p, IF queryID = <<>> \/ a.err
                          THEN Respond([r EXCEPT !.query = queryID], 400, NilSlice)
                          ELSE [r EXCEPT !.pc = "load_read", !.query = queryID,
                                         !.taskID = a.n], FALSE)
           [] OTHER -> Step(p, Respond(r, 405, NilSlice), FALSE)
    /\ UNCHANGED << variant, file, dataMutex, dbRows, dbWriter >>

\* apiTasksHandler for any request of a client.
FileRequest(p) == FileRequestOf(p, Bodies, Queries)

\* loadTasksFromFile: os.ReadFile and the branch on its error.  A missing
\* file makes the load call saveTasksToFile(getInitialTasks()).
LoadRead(p) ==
    /\ NoneDone
    /\ variant = "file"
    /\ g[p].pc = "load_read"
    /\ LET r == [g[p] EXCEPT !.expect = lastSaved, !.fresh = ~file.exists, !.read = TRUE,
                             !.torn = \E w \in Procs : g[w].pc = "save_write"] IN
       \/ /\ ~file.exists
          /\ Step(p, [r EXCEPT !.pc = "save_lock", !.saveFrom = "seed",
                               !.tasks = getInitialTasks], FALSE)
       \/ /\ file.exists
          /\ Step(p, [r EXCEPT !.pc = "load_lock", !.data = file.bytes], FALSE)
       \/ \* fault: os.ReadFile fails with an error other than "not exist"
          Step(p, LoadReturn([r EXCEPT !.fault = "read"], NilSlice, TRUE), FALSE)
    /\ UNCHANGED << variant, file, dataMutex, dbRows, dbWriter >>

\* A return path without its Unlock: the mutex stays with its holder.
UnlockForgotten(m) == m

\* defer dataMutex.Unlock() at the return of the function that locked m.
Unlock(m) == "none"

\* loadTasksFromFile: dataMutex.Lock().
LoadLock(p) ==
    /\ NoneDone
    /\ variant = "file"
    /\ g[p].pc = "load_lock"
    /\ dataMutex = "none"
    /\ dataMutex' = p
    /\ Step(p, [g[p] EXCEPT !.pc = "load_parse"], FALSE)
    /\ UNCHANGED << variant, file, dbRows, dbWriter >>

\* loadTasksFromFile: json.Unmarshal, the deferred Unlock and the return.
LoadParse(p) ==
    /\ NoneDone
    /\ variant = "file"
    /\ g[p].pc = "load_parse"
    /\ dataMutex' = Unlock(dataMutex)
    /\ LET u == Unmarshal(g[p].data) IN
       Step(p, LoadReturn(g[p], u.tasks, u.err), FALSE)
    /\ UNCHANGED << variant, file, dbRows, dbWriter >>

\* saveTasksToFile: dataMutex.Lock().
SaveLock(p) ==
    /\ NoneDone
    /\ variant = "file"
    /\ g[p].pc = "save_lock"
    /\ dataMutex = "none"
    /\ dataMutex' = p
    /\ Step(p, [g[p] EXCEPT !.pc = "save_open"], FALSE)
    /\ UNCHANGED << variant, file, dbRows, dbWriter >>

\* The open of os.WriteFile with O_APPEND in place of O_TRUNC: the bytes of
\* the file stay and the write goes after them.
TruncateNot(bytes) == bytes

\* What the open of os.WriteFile (O_WRONLY|O_CREATE|O_TRUNC) leaves of the
\* bytes of the file: nothing.
Truncate(bytes) == <<>>

\* saveTasksToFile: json.MarshalIndent, then os.WriteFile opens the file
\* with O_WRONLY|O_CREATE|O_TRUNC, which empties it.
SaveOpen(p) ==
    /\ NoneDone
    /\ variant = "file"
    /\ g[p].pc = "save_open"
    /\ \/ /\ file' = [exists |-> TRUE, bytes |-> Truncate(file.bytes)]
          /\ Step(p, [g[p] EXCEPT !.pc = "save_write", !.wrote = TRUE], FALSE)
          /\ UNCHANGED dataMutex
       \/ \* fault: the open fails; nothing is written, the deferred Unlock runs
          /\ dataMutex' = Unlock(dataMutex)
          /\ Step(p, SaveReturn([g[p] EXCEPT !.fault = "open"], TRUE), FALSE)
          /\ UNCHANGED file
    /\ UNCHANGED << variant, dbRows, dbWriter >>

\* saveTasksToFile: os.WriteFile writes the document after what the open left
\* of the file and closes the file,
\* the deferred Unlock runs, the function returns.
SaveWrite(p) ==
    /\ NoneDone
    /\ variant = "file"
    /\ g[p].pc = "save_write"
    /\ dataMutex' = Unlock(dataMutex)
    /\ \/ /\ file' = [exists |-> TRUE, bytes |-> file.bytes \o Marshal(g[p].tasks)]
          /\ Step(p, SaveReturn(g[p], FALSE), TRUE)
       \/ \* fault: the write fails; the file stays as the open left it
          /\ UNCHANGED file
          /\ Step(p, SaveReturn([g[p] EXCEPT !.fault = "write"], TRUE), FALSE)
    /\ UNCHANGED << variant, dbRows, dbWriter >>

\* ------------------------------------------------ relational variant
\* The SQL engine keeps the committed table (dbRows) and, per open
\* transaction, the table as that transaction sees it (txRows); one
\* transaction at a time holds the write lock (dbWriter).  Statements of
\* other connections read the committed table.

\* A statement of saveTasksToDB that succeeded, with its arguments.
Op(name, args) == [op |-> name, args |-> args]

\* stmt.Exec with the start and color arguments in each other's place.
InsertArgsSwapped(task) ==
    << task.ID, task.Name, task.Color, task.DurationDays, task.Start, task.Priority >>

\* The row INSERT INTO tasks (id, name, start, durationDays, color, priority)
\* VALUES (?, ?, ?, ?, ?, ?) stores for the arguments of stmt.Exec.
InsertArgs(task) ==
    << task.ID, task.Name, task.Start, task.DurationDays, task.Color, task.Priority >>

InsertRow(args) ==
    [id |-> args[1], name |-> args[2], start |-> args[3],
     durationDays |-> args[4], color |-> args[5], priority |-> args[6]]

\* SELECT id, name, start, durationDays, color, priority of a row, and
\* rows.Scan(&t.ID, &t.Name, &t.Start, &t.DurationDays, &t.Color, &t.Priority).
SelectCols(row) ==
    << row.id, row.name, row.start, row.durationDays, row.color, row.priority >>
ScanRow(cols) == Task(cols[1], cols[2], cols[3], cols[4], cols[5], cols[6])

\* The query without its ORDER BY clause: the rows come in any order.
AnyOrder(rows) ==
    { s \in [1..Cardinality(rows) -> rows] :
        \A i, j \in 1..Cardinality(rows) : i # j => s[i] # s[j] }

RECURSIVE OrderBy(_)
\* ... FROM tasks ORDER BY priority: the orders in which the engine may
\* yield the rows (rows of equal priority come in any order).
OrderBy(rows) ==
    IF rows = {} THEN { <<>> }
    ELSE UNION { { <<r>> \o s : s \in OrderBy(rows \ {r}) } :
                 r \in { r \in rows : \A q \in rows : r.priority <= q.priority } }

\* DELETE FROM tasks.
DeleteAll(rows) == {}

\* The table declared without PRIMARY KEY: every insert is accepted.
PrimaryKeyOff(rows, row) == TRUE

\* "id" INTEGER PRIMARY KEY: the insert of a row whose id the table holds fails.
PrimaryKeyFree(rows, row) == \A q \in rows : q.id # row.id

\* tx.Rollback() undone: the statements of the transaction are applied to the
\* table as if it had committed.
RollbackApplies(committed, txRows) == txRows

\* tx.Rollback(): the committed table after it; what the transaction did
\* (txRows) is dropped.
Rollback(committed, txRows) == committed

\* The locals of saveTasksToDB once its transaction has ended.
EndTx(r) == [r EXCEPT !.txOpen = FALSE, !.txRows = {}, !.i = 0]

\* The caller of saveTasksToDB after it returned err: initDB and main, or
\* the POST branch of apiTasksHandler.
DbSaveReturn(r0, err) ==
    LET r == [r0 EXCEPT !.saveErr = err] IN
    CASE r.saveFrom = "init" ->
           IF err THEN [r EXCEPT !.pc = "exit"] ELSE [r EXCEPT !.pc = "loaded"]
      [] r.saveFrom = "post" ->
           IF err THEN Respond(r, 500, NilSlice) ELSE Respond(r, 200, NilSlice)

\* main() and initDB up to the count of the rows: sql.Open, db.Ping,
\* CREATE TABLE IF NOT EXISTS, SELECT COUNT(*).  An empty table makes initDB
\* call saveTasksToDB(getInitialTasks()).
DbMainInit ==
    /\ NoneDone
    /\ variant = "db"
    /\ g["main"].pc = "boot"
    /\ LET r == [g["main"] EXCEPT !.method = "MAIN", !.branch = "MAIN",
                                  !.afterSave = everSaved, !.read = TRUE,
                                  !.expect = lastSaved, !.fresh = (dbRows = {})] IN
       \/ /\ Cardinality(dbRows) = 0
          /\ Step("main", [r EXCEPT !.pc = "tx_begin", !.saveFrom = "init",
                                    !.tasks = getInitialTasks], FALSE)
       \/ /\ Cardinality(dbRows) # 0
          /\ Step("main", [r EXCEPT !.pc = "loaded"], FALSE)
       \/ \* fault: one of the four calls fails; main ends in log.Fatalf
          Step("main", [r EXCEPT !.pc = "exit", !.fault = "init"], FALSE)
    /\ UNCHANGED << variant, file, dataMutex, dbRows, dbWriter >>

\* main() after initDB returned a store: http.ListenAndServe.
DbMainListen ==
    /\ variant = "db"
    /\ g["main"].pc = "loaded"
    /\ Step("main", Blank("listen"), FALSE)
    /\ UNCHANGED << variant, file, dataMutex, dbRows, dbWriter >>

\* apiTasksHandler from its entry to its first access to the store.
DbRequest(p) ==
    /\ NoneDone
    /\ variant = "db"
    /\ Serving
    /\ g[p].pc = "idle"
    /\ \E m \in Methods :
         LET r == [g[p] EXCEPT !.method = m, !.branch = Route(variant, m),
                               !.afterSave = everSaved] IN
         CASE r.branch = "GET" -> Step(p, [r EXCEPT !.pc = "db_load"], FALSE)
           [] r.branch = "POST" ->
                \/ \E body \in Bodies :
                     LET u == Unmarshal(body) IN
                     Step(p, IF u.err THEN Respond([r EXCEPT !.data = body], 400, NilSlice)
                             ELSE [r EXCEPT !.pc = "tx_begin", !.saveFrom = "post",
                                            !.data = body, !.tasks = u.tasks,
                                            !.expect = lastSaved,
                                            !.before = [file |-> file, rows |-> dbRows]],
                                  FALSE)
                \/ \* fault: io.ReadAll(r.Body) fails
                   Step(p, Respond([r EXCEPT !.fault = "body"], 400, NilSlice), FALSE)
           [] OTHER -> Step(p, Respond(r, 405, NilSlice), FALSE)
    /\ UNCHANGED << variant, file, dataMutex, dbRows, dbWriter >>

\* What loadTasksFromDB returns when the engine yields the rows in order
\* rows: every row scanned and appended.
ScanAll(rows) == Slice([ k \in 1..Len(rows) |-> ScanRow(SelectCols(rows[k])) ])

\* loadTasksFromDB (one SELECT, which reads the committed table) and the GET
\* branch after it.
DbLoad(p) ==
    /\ NoneDone
    /\ variant = "db"
    /\ g[p].pc = "db_load"
    /\ LET r == [g[p] EXCEPT !.expect = lastSaved, !.read = TRUE] IN
       \/ \E rows \in OrderBy(dbRows) :
            Step(p, LoadReturn(r, ScanAll(rows), FALSE), FALSE)
       \/ \* fault: db.Query fails
          Step(p, LoadReturn([r EXCEPT !.fault = "query"], NilSlice, TRUE), FALSE)
       \/ \* fault: rows.Scan fails on some row
          /\ dbRows # {}
          /\ Step(p, LoadReturn([r EXCEPT !.fault = "scan"], NilSlice, TRUE), FALSE)
       \/ \* fault: rows.Next() ends the loop with an error after n rows;
          \* rows.Err() is not looked at
          \E rows \in OrderBy(dbRows) : \E n \in 0..(Len(rows) - 1) :
            Step(p, LoadReturn([r EXCEPT !.fault = "next"],
                               ScanAll(SubSeq(rows, 1, n)), FALSE), FALSE)
    /\ UNCHANGED << variant, file, dataMutex, dbRows, dbWriter >>

\* saveTasksToDB: db.Begin().
TxBegin(p) ==
    /\ NoneDone
    /\ variant = "db"
    /\ g[p].pc = "tx_begin"
    /\ \/ Step(p, [g[p] EXCEPT !.pc = "tx_delete", !.txOpen = TRUE,
                               !.ops = Append(@, Op("begin", <<>>))], FALSE)
       \/ \* fault: no transaction is begun
          Step(p, DbSaveReturn([g[p] EXCEPT !.fault = "begin"], TRUE), FALSE)
    /\ UNCHANGED << variant, file, dataMutex, dbRows, dbWriter >>

\* saveTasksToDB: tx.Exec("DELETE FROM tasks"), the first write of the
\* transaction, which takes the write lock; with the lock held by another
\* transaction the statement fails ("database is locked").  On an error
\* tx.Rollback() and return.
TxDelete(p) ==
    /\ NoneDone
    /\ variant = "db"
    /\ g[p].pc = "tx_delete"
    /\ \/ /\ dbWriter = "none"
          /\ dbWriter' = p
          /\ Step(p, [g[p] EXCEPT !.pc = "tx_prepare", !.wrote = TRUE,
                                  !.txRows = DeleteAll(dbRows),
                                  !.ops = Append(@, Op("delete", <<>>))], FALSE)
          /\ UNCHANGED dbRows
       \/ /\ dbWriter # "none"
          /\ dbRows' = Rollback(dbRows, dbRows)
          /\ Step(p, DbSaveReturn(EndTx(g[p]), TRUE), FALSE)
          /\ UNCHANGED dbWriter
       \/ \* fault: the statement fails
          /\ dbRows' = Rollback(dbRows, dbRows)
          /\ Step(p, DbSaveReturn(EndTx([g[p] EXCEPT !.fault = "delete"]), TRUE), FALSE)
          /\ UNCHANGED dbWriter
    /\ UNCHANGED << variant, file, dataMutex >>

\* saveTasksToDB: tx.Prepare(INSERT ...); on an error tx.Rollback() and return.
TxPrepare(p) ==
    /\ NoneDone
    /\ variant = "db"
    /\ g[p].pc = "tx_prepare"
    /\ \/ /\ Step(p, [g[p] EXCEPT !.pc = IF Len(g[p].tasks.items) = 0
                                         THEN "tx_commit" ELSE "tx_insert",
                                  !.ops = Append(@, Op("prepare", <<>>))], FALSE)
          /\ UNCHANGED << dbWriter, dbRows >>
       \/ \* fault: the statement is not prepared
          /\ dbWriter' = "none"
          /\ dbRows' = Rollback(dbRows, g[p].txRows)
          /\ Step(p, DbSaveReturn(EndTx([g[p] EXCEPT !.fault = "prepare"]), TRUE), FALSE)
    /\ UNCHANGED << variant, file, dataMutex >>

\* saveTasksToDB: one turn of the insert loop, stmt.Exec on the next task;
\* on an error tx.Rollback() and return.
TxInsert(p) ==
    /\ NoneDone
    /\ variant = "db"
    /\ g[p].pc = "tx_insert"
    /\ LET task == g[p].tasks.items[g[p].i + 1]
           row == InsertRow(InsertArgs(task)) IN
       \/ /\ PrimaryKeyFree(g[p].txRows, row)
          /\ Step(p, [g[p] EXCEPT !.txRows = @ \cup {row}, !.i = @ + 1,
                                  !.ops = Append(@, Op("insert", InsertArgs(task))),
                                  !.pc = IF g[p].i + 1 = Len(g[p].tasks.items)
                                         THEN "tx_commit" ELSE "tx_insert"], FALSE)
          /\ UNCHANGED << dbWriter, dbRows >>
       \/ /\ ~PrimaryKeyFree(g[p].txRows, row)
          /\ dbWriter' = "none"
          /\ dbRows' = Rollback(dbRows, g[p].txRows)
          /\ Step(p, DbSaveReturn(EndTx(g[p]), TRUE), FALSE)
       \/ \* fault: the statement fails
          /\ dbWriter' = "none"
          /\ dbRows' = Rollback(dbRows, g[p].txRows)
          /\ Step(p, DbSaveReturn(EndTx([g[p] EXCEPT !.fault = "insert"]), TRUE), FALSE)
    /\ UNCHANGED << variant, file, dataMutex >>

\* saveTasksToDB: tx.Commit().  A commit that fails ends the transaction
\* without applying it.
TxCommit(p) ==
    /\ NoneDone
    /\ variant = "db"
    /\ g[p].pc = "tx_commit"
    /\ dbWriter' = "none"
    /\ \/ /\ dbRows' = g[p].txRows
          /\ Step(p, DbSaveReturn(EndTx([g[p] EXCEPT !.ops = Append(@, Op("commit", <<>>))]),
                                   FALSE), TRUE)
       \/ \* fault: the commit fails
          /\ UNCHANGED dbRows
          /\ Step(p, DbSaveReturn(EndTx([g[p] EXCEPT !.fault = "commit"]), TRUE), FALSE)
    /\ UNCHANGED << variant, file, dataMutex >>

\* ---------------------------------------------------------------- both

\* The goroutine of a finished request ends; its name serves a new request.
Finish(p) ==
    /\ g[p].pc = "done"
    /\ Step(p, Blank("idle"), FALSE)
    /\ UNCHANGED << variant, file, dataMutex, dbRows, dbWriter >>

\* The process is stopped and started again: goroutines, the mutex and open
\* transactions are gone, the file and the committed table stay.
Restart ==
    /\ NoneDone
    /\ g["main"].pc # "boot"
    /\ g' = [p \in Procs |-> Blank(IF p = "main" THEN "boot" ELSE "idle")]
    /\ dataMutex' = "none"
    /\ dbWriter' = "none"
    /\ lastSaved' = IF \E p \in Procs : g[p].pc \in SavePcs THEN Unknown ELSE lastSaved
    /\ UNCHANGED << variant, file, dbRows, everSaved >>

Init ==
    /\ variant \in {"file", "db"}
    /\ file = NoFile
    /\ dataMutex = "none"
    /\ dbRows = {}
    /\ dbWriter = "none"
    /\ g = [p \in Procs |-> Blank(IF p = "main" THEN "boot" ELSE "idle")]
    /\ lastSaved = Unknown
    /\ everSaved = FALSE

Next ==
    \/ FileMainStart
    \/ FileMainListen
    \/ \E p \in Handlers : FileRequest(p)
    \/ \E p \in Procs : LoadRead(p)
    \/ \E p \in Procs : LoadLock(p)
    \/ \E p \in Procs : LoadParse(p)
    \/ \E p \in Procs : SaveLock(p)
    \/ \E p \in Procs : SaveOpen(p)
    \/ \E p \in Procs : SaveWrite(p)
    \/ DbMainInit
    \/ DbMainListen
    \/ \E p \in Handlers : DbRequest(p)
    \/ \E p \in Handlers : DbLoad(p)
    \/ \E p \in Procs : TxBegin(p)
    \/ \E p \in Procs : TxDelete(p)
    \/ \E p \in Procs : TxPrepare(p)
    \/ \E p \in Procs : TxInsert(p)
    \/ \E p \in Procs : TxCommit(p)
    \/ \E p \in Handlers : Finish(p)
    \/ Restart

Spec == Init /\ [][Next]_vars

\* The flat-file program under the scheduling its runtime gives, for the
\* requests of FairBodies and FairQueries: main runs on, a goroutine that can
\* take its next step again and again takes it (a Lock on a mutex that keeps
\* being released is granted: sync.Mutex hands a starving waiter the lock),
\* a written response is delivered.  Requests need not arrive.
InitFile == Init /\ variant = "file"

FairBodies == { Marshal(Slice(<< TaskA, TaskB >>)), << Tok("junk") >> }
FairQueries == { <<>>, << "3" >>, << "7" >> }

\* The next step of goroutine p inside loadTasksFromFile or saveTasksToFile.
ProcStep(p) ==
    \/ LoadRead(p)
    \/ LoadLock(p)
    \/ LoadParse(p)
    \/ SaveLock(p)
    \/ SaveOpen(p)
    \/ SaveWrite(p)

NextFile ==
    \/ FileMainStart
    \/ FileMainListen
    \/ \E p \in Handlers : FileRequestOf(p, FairBodies, FairQueries)
    \/ \E p \in Procs : ProcStep(p)
    \/ \E p \in Handlers : Finish(p)

Fairness ==
    /\ WF_vars(FileMainStart)
    /\ WF_vars(FileMainListen)
    /\ \A p \in Procs : SF_vars(ProcStep(p))
    /\ \A p \in Handlers : WF_vars(Finish(p))

FairSpec == InitFile /\ [][NextFile]_vars /\ Fairness

\* ---------------------------------------------------------------- claims

\* A goroutine whose Load, request or boot has just returned.
Returned(p) == g[p].pc \in {"done", "loaded"}

\* The same tasks, each as often, in any order.
SameTasks(a, b) ==
    /\ Len(a) = Len(b)
    /\ \A t \in {a[i] : i \in 1..Len(a)} \cup {b[i] : i \in 1..Len(b)} :
         Cardinality({i \in 1..Len(a) : a[i] = t})
           = Cardinality({i \in 1..Len(b) : b[i] = t})

\* C1: round trip.  A Load that reads the store after ReplaceAll(T) succeeded,
\* with no other ReplaceAll begun in between, and that meets no I/O error,
\* succeeds and returns the tasks of T, every field equal: the very slice T
\* (nil or not, in T's order) from the file, a rearrangement of T from the
\* table.
C1_RoundTrip ==
    \A p \in Procs :
      (/\ Returned(p)
       /\ \/ variant = "file" /\ g[p].method \in {"GET", "DELETE", "MAIN"}
          \/ variant = "db" /\ g[p].method = "GET"
       /\ g[p].expect.known
       /\ g[p].fault = "none")
      => /\ ~g[p].loadErr
         /\ variant = "file" => g[p].current = g[p].expect.tasks
         /\ variant = "db" =>
              /\ ~g[p].current.isNil
              /\ SameTasks(g[p].current.items, g[p].expect.tasks.items)

\* C1 witness: a GET answered with the two test tasks right after they were stored.
C1_Witness ==
    \E p \in Handlers :
      /\ g[p].pc = "done" /\ g[p].method = "GET" /\ g[p].code = 200
      /\ g[p].expect = Known(Slice(<< TaskA, TaskB >>))
      /\ g[p].fault = "none"
      /\ Len(g[p].body.items) = 2

\* C2 (as claimed): a Load of the flat-file store that reads the file while a
\* ReplaceAll is between its open and its write, and that meets no I/O error,
\* does not fail: it returns a complete collection, never a parse error.
C2_NoTornRead ==
    \A p \in Procs :
      (/\ variant = "file"
       /\ Returned(p)
       /\ g[p].method \in {"GET", "DELETE", "MAIN"}
       /\ g[p].torn
       /\ g[p].fault = "none")
      => ~g[p].loadErr

\* The rows ReplaceAll(c) inserts.
RowsOf(c) == { InsertRow(InsertArgs(c.items[i])) : i \in 1..Len(c.items) }

\* C3: failure atomicity of the relational ReplaceAll.  A saveTasksToDB that
\* fails at any step returns an error to its caller (500 from the POST branch,
\* exit of main from initDB) with its transaction ended and the write lock
\* given back, and the table is then what it was before the call; no step
\* other than a commit that succeeds changes the committed table.
C3_FailureAtomicity ==
    /\ [](\A p \in Procs :
            (/\ variant = "db"
             /\ g[p].pc \in {"done", "exit"}
             /\ g[p].saveFrom # ""
             /\ \/ g[p].saveErr
                \/ g[p].fault \in {"begin", "delete", "prepare", "insert", "commit"})
            => /\ g[p].saveErr
               /\ g[p].pc = "exit" \/ g[p].code = 500
               /\ ~g[p].txOpen
               /\ dbWriter # p
               /\ g[p].expect.known => dbRows = RowsOf(g[p].expect.tasks))
    /\ [][(variant = "db" /\ dbRows' # dbRows)
            => \E p \in Procs : /\ g[p].pc = "tx_commit"
                                /\ ~g'[p].saveErr
                                /\ g'[p].pc \in {"done", "loaded"}
                                /\ dbRows' = g[p].txRows]_vars

\* C3 witness: a POST of two tasks with one id failed at its second insert,
\* after its delete and first insert, over a table that held rows.
C3_Witness ==
    \E p \in Handlers :
      /\ variant = "db"
      /\ g[p].pc = "done" /\ g[p].method = "POST" /\ g[p].code = 500
      /\ g[p].saveErr /\ g[p].wrote
      /\ g[p].tasks = Slice(<< TaskA, TaskC >>)
      /\ g[p].expect.known
      /\ dbRows # {}

\* C4 (as claimed): every Load of the relational store that succeeds returns
\* the whole committed table: all its rows, each once.
C4_WholeSnapshot ==
    \A p \in Handlers :
      (/\ variant = "db"
       /\ g[p].pc = "done" /\ g[p].method = "GET" /\ g[p].code = 200)
      => \E rows \in OrderBy(dbRows) : g[p].body = ScanAll(rows)

\* The entries of items whose id is not taskID, in the order of items.
Without(items, taskID) == SelectSeq(items, LAMBDA t : t.ID # taskID)

\* C5: deletion of a present id.  A flat-file DELETE of an id the stored
\* collection holds, with no other write from its Load on and no I/O error,
\* answers 200 and leaves in the file, for the next Load to return, the
\* previous collection without the entries of that id, the others unchanged
\* and in their order.
C5_DeletePresent ==
    \A p \in Handlers :
      (/\ variant = "file"
       /\ g[p].pc = "done" /\ g[p].method = "DELETE"
       /\ g[p].expect.known
       /\ g[p].fault = "none"
       /\ g[p].taskID \in IDs(g[p].expect.tasks.items))
      => /\ g[p].code = 200
         /\ file.exists
         /\ Unmarshal(file.bytes)
              = [err |-> FALSE,
                 tasks |-> Slice(Without(g[p].expect.tasks.items, g[p].taskID))]
         /\ lastSaved = Known(Slice(Without(g[p].expect.tasks.items, g[p].taskID)))

\* C5 witness: task 3 deleted from the five seeded tasks.
C5_Witness ==
    \E p \in Handlers :
      /\ variant = "file"
      /\ g[p].pc = "done" /\ g[p].method = "DELETE" /\ g[p].code = 200
      /\ g[p].taskID = 3
      /\ g[p].expect.known /\ Len(g[p].expect.tasks.items) = 5
      /\ g[p].fault = "none"
      /\ Len(Unmarshal(file.bytes).tasks.items) = 4

\* C6: deletion of an absent id.  A flat-file DELETE of an id no stored task
\* has, with no other write from its Load on and no I/O error, answers 404
\* and calls no ReplaceAll: the file holds the same document, the stored
\* collection is the same as before the request.
C6_DeleteAbsent ==
    \A p \in Handlers :
      (/\ variant = "file"
       /\ g[p].pc = "done" /\ g[p].method = "DELETE"
       /\ g[p].expect.known
       /\ g[p].fault = "none"
       /\ g[p].taskID \notin IDs(g[p].expect.tasks.items))
      => /\ g[p].code = 404
         /\ g[p].saveFrom = ""
         /\ ~g[p].wrote
         /\ file = [exists |-> TRUE, bytes |-> Marshal(g[p].expect.tasks)]
         /\ lastSaved = g[p].expect

\* C6 witness: id 7 asked of a store that holds tasks, none with id 7.
C6_Witness ==
    \E p \in Handlers :
      /\ variant = "file"
      /\ g[p].pc = "done" /\ g[p].method = "DELETE" /\ g[p].code = 404
      /\ g[p].taskID = 7
      /\ g[p].expect.known /\ g[p].expect.tasks.items # <<>>
      /\ g[p].fault = "none"

\* A document that is a JSON array of Task objects.
IsArrayOfTask(body) ==
    /\ Len(body) >= 2
    /\ body[1].t = "["
    /\ body[Len(body)].t = "]"
    /\ \A i \in 2..(Len(body) - 1) : body[i].t = "obj"

\* C7 (as claimed): a POST whose body is not a JSON array of Task is answered
\* 400 and calls no ReplaceAll, in both variants.
C7_NonArrayRejected ==
    \A p \in Handlers :
      (/\ g[p].pc = "done" /\ g[p].method = "POST"
       /\ ~IsArrayOfTask(g[p].data))
      => /\ g[p].code = 400
         /\ g[p].saveFrom = ""
         /\ ~g[p].wrote

\* The five default tasks as the source lists them (start dates counted from
\* January 1st of next year).
DefaultTasks ==
    << [ID |-> 1, Name |-> "requirements gathering", Start |-> "NY-01-01",
        DurationDays |-> 7, Color |-> "#3B82F6", Priority |-> 4],
       [ID |-> 2, Name |-> "system design", Start |-> "NY-01-08",
        DurationDays |-> 5, Color |-> "#F97316", Priority |-> 2],
       [ID |-> 3, Name |-> "backend development", Start |-> "NY-01-13",
        DurationDays |-> 12, Color |-> "#EF4444", Priority |-> 1],
       [ID |-> 4, Name |-> "frontend development", Start |-> "NY-01-13",
        DurationDays |-> 10, Color |-> "#FBBF24", Priority |-> 3],
       [ID |-> 5, Name |-> "integration testing", Start |-> "NY-01-25",
        DurationDays |-> 8, Color |-> "#10B981", Priority |-> 5] >>

\* C8: first-run seeding.  Flat file: a Load that finds no file and meets no
\* I/O error returns the five default tasks, in their order, and the file
\* then holds them.  Relational: after an Init that finds the table empty
\* and meets no error the table holds the five default tasks, which is what
\* a Load then returns, in whatever order the query yields them.
C8_FirstRunSeeding ==
    \A p \in Procs :
      (/\ Returned(p)
       /\ g[p].fresh
       /\ g[p].fault = "none"
       /\ g[p].saveFrom \in {"seed", "init"})
      => /\ ~g[p].saveErr
         /\ variant = "file" =>
              /\ ~g[p].loadErr
              /\ g[p].current = Slice(DefaultTasks)
              /\ file.exists
              /\ Unmarshal(file.bytes) = [err |-> FALSE, tasks |-> Slice(DefaultTasks)]
         /\ variant = "db" =>
              /\ Cardinality(dbRows) = 5
              /\ \A rows \in OrderBy(dbRows) :
                   SameTasks(ScanAll(rows).items, DefaultTasks)

\* C8 witness: main has seeded a fresh store.
C8_Witness ==
    /\ g["main"].pc = "loaded"
    /\ g["main"].fresh
    /\ g["main"].fault = "none"
    /\ g["main"].wrote
    /\ g["main"].saveFrom \in {"seed", "init"}

\* C9 (as claimed): a Load or Init that has written the default tasks to the
\* store was called before any ReplaceAll had succeeded.
C9_SeedOnlyOnce ==
    \A p \in Procs :
      (/\ Returned(p)
       /\ g[p].saveFrom \in {"seed", "init"}
       /\ g[p].wrote
       /\ ~g[p].saveErr)
      => ~g[p].afterSave

\* Priorities never decrease along items.
SortedByPriority(items) ==
    \A i \in 1..(Len(items) - 1) : items[i].Priority <= items[i + 1].Priority

\* C10: Load order.  A relational Load that succeeds returns tasks sorted by
\* non-decreasing priority; the two test tasks, stored as [101, 102], load as
\* [102, 101].  A flat-file Load returns the tasks in the order ReplaceAll was
\* given them.
C10_LoadOrder ==
    \A p \in Handlers :
      (g[p].pc = "done" /\ g[p].method = "GET" /\ g[p].code = 200)
      => /\ variant = "db" =>
              /\ SortedByPriority(g[p].body.items)
              /\ (g[p].expect = Known(Slice(<< TaskA, TaskB >>)) /\ g[p].fault = "none")
                   => g[p].body.items = << TaskB, TaskA >>
         /\ (variant = "file" /\ g[p].expect.known /\ g[p].fault = "none")
              => g[p].body.items = g[p].expect.tasks.items

\* C10 witness: the two test tasks, stored in the order [101, 102], loaded
\* from the table.
C10_Witness ==
    \E p \in Handlers :
      /\ variant = "db"
      /\ g[p].pc = "done" /\ g[p].method = "GET" /\ g[p].code = 200
      /\ g[p].expect = Known(Slice(<< TaskA, TaskB >>))
      /\ g[p].body.items = << TaskB, TaskA >>

\* C11: step order of the relational ReplaceAll.  A saveTasksToDB(T) that
\* succeeded has executed, in this order and nothing else: begin, one delete
\* of all rows, one prepare, one insert per task of T in T's order with that
\* task's id, name, start, durationDays, color and priority, and the commit.
C11_StepOrder ==
    \A p \in Procs :
      (/\ variant = "db"
       /\ Returned(p)
       /\ g[p].saveFrom \in {"init", "post"}
       /\ ~g[p].saveErr)
      => g[p].ops
           = << Op("begin", <<>>), Op("delete", <<>>), Op("prepare", <<>>) >>
             \o [ k \in 1..Len(g[p].tasks.items) |->
                    LET t == g[p].tasks.items[k] IN
                    Op("insert", << t.ID, t.Name, t.Start, t.DurationDays,
                                    t.Color, t.Priority >>) ]
             \o << Op("commit", <<>>) >>

\* C11 witness: a POST of the two test tasks has been committed.
C11_Witness ==
    \E p \in Handlers :
      /\ variant = "db"
      /\ g[p].pc = "done" /\ g[p].method = "POST" /\ g[p].code = 200
      /\ g[p].tasks = Slice(<< TaskA, TaskB >>)
      /\ Len(g[p].ops) = 6

\* C12 (as claimed): the relational Load is all-or-error.  A loadTasksFromDB
\* whose query, row scan or row iteration fails returns (nil, error) and the
\* GET answers 500; one that returns a nil error returns every row of the
\* table.
C12_AllOrError ==
    \A p \in Handlers :
      (/\ variant = "db"
       /\ g[p].pc = "done" /\ g[p].method = "GET")
      => /\ g[p].fault \in {"query", "scan", "next"}
              => (g[p].loadErr /\ g[p].current = NilSlice /\ g[p].code = 500)
         /\ ~g[p].loadErr
              => (g[p].code = 200 /\ Len(g[p].current.items) = Cardinality(dbRows))

\* C13: idempotence.  A POST of T that succeeds right after a ReplaceAll(T)
\* that succeeded, with no other write in between, leaves the store as the
\* first call left it: the same file, the same table, so the Load after the
\* second call returns what the Load after the first returned.
C13_Idempotent ==
    \A p \in Handlers :
      (/\ g[p].pc = "done" /\ g[p].method = "POST" /\ g[p].code = 200
       /\ g[p].expect = Known(g[p].tasks))
      => /\ file = g[p].before.file
         /\ dbRows = g[p].before.rows
         /\ lastSaved = g[p].expect

\* C13 witness: the two test tasks posted a second time, in either variant.
C13_Witness ==
    \E p \in Handlers :
      /\ g[p].pc = "done" /\ g[p].method = "POST" /\ g[p].code = 200
      /\ g[p].tasks = Slice(<< TaskA, TaskB >>)
      /\ g[p].expect = Known(g[p].tasks)
      /\ g[p].wrote

\* Two entries of items have one id.
HasDuplicateID(items) ==
    \E i, j \in 1..Len(items) : i # j /\ items[i].ID = items[j].ID

\* No two rows of rows have one id.
OneRowPerID(rows) == \A r1, r2 \in rows : r1.id = r2.id => r1 = r2

\* C14: id uniqueness.  The table, and the table as any open transaction
\* sees it, holds at most one row per id.  A relational POST of a collection
\* with two tasks of one id fails with an error (500) and, no other
\* ReplaceAll having begun since it was called, leaves the table as it was.
\* A flat-file POST of such a collection that meets no I/O error answers 200
\* and the file holds the collection as posted.
C14_UniqueIDs ==
    /\ OneRowPerID(dbRows)
    /\ \A p \in Procs : OneRowPerID(g[p].txRows)
    /\ \A p \in Handlers :
         (/\ g[p].pc = "done" /\ g[p].method = "POST" /\ g[p].code # 400
          /\ HasDuplicateID(g[p].tasks.items))
         => /\ variant = "db" =>
                 /\ g[p].saveErr /\ g[p].code = 500
                 /\ g[p].expect.known => dbRows = g[p].before.rows
            /\ (variant = "file" /\ g[p].fault = "none") =>
                 /\ g[p].code = 200
                 /\ file = [exists |-> TRUE, bytes |-> g[p].data]
                 /\ Unmarshal(file.bytes) = [err |-> FALSE, tasks |-> g[p].tasks]

\* C14 witness: the POST of [TaskA, TaskC], two tasks with id 101, has been
\* answered, in either variant.
C14_Witness ==
    \E p \in Handlers :
      /\ g[p].pc = "done" /\ g[p].method = "POST"
      /\ g[p].tasks = Slice(<< TaskA, TaskC >>)
      /\ g[p].fault = "none"
      /\ g[p].wrote

\* The methods apiTasksHandler of variant v supports.
Supported(v) == IF v = "file" THEN {"GET", "POST", "DELETE"} ELSE {"GET", "POST"}

\* C15: method mapping.  A request with a method other than the supported
\* ones (DELETE is unsupported in the relational variant) is answered 405
\* and does nothing with the store: no read, no ReplaceAll, no statement.
C15_MethodMapping ==
    \A p \in Handlers :
      (g[p].pc = "done" /\ g[p].method \notin Supported(variant))
      => /\ g[p].code = 405
         /\ ~g[p].read
         /\ ~g[p].wrote
         /\ g[p].saveFrom = ""
         /\ g[p].ops = <<>>

\* C15 witness: a DELETE sent to the relational variant has been answered.
C15_Witness ==
    \E p \in Handlers :
      /\ variant = "db"
      /\ g[p].pc = "done" /\ g[p].method = "DELETE" /\ g[p].code = 405
      /\ dbRows # {}

\* A decimal integer: digits, after an optional sign.
IsInteger(q) ==
    LET d == IF q # <<>> /\ q[1] \in {"+", "-"} THEN Tail(q) ELSE q IN
    /\ d # <<>>
    /\ \A i \in 1..Len(d) : d[i] \in {"0", "1", "2", "3", "4", "5", "6", "7", "8", "9"}

\* C16: DELETE argument validation.  A flat-file DELETE whose id parameter
\* is missing, empty or no integer is answered 400 (never 404 or 200) and has
\* neither read nor written the store.
C16_DeleteValidation ==
    \A p \in Handlers :
      (/\ variant = "file"
       /\ g[p].pc = "done" /\ g[p].method = "DELETE"
       /\ ~IsInteger(g[p].query))
      => /\ g[p].code = 400
         /\ ~g[p].read
         /\ ~g[p].wrote
         /\ g[p].saveFrom = ""

\* C16 witness: a DELETE with id=3x has been answered while the file held tasks.
C16_Witness ==
    \E p \in Handlers :
      /\ variant = "file"
      /\ g[p].pc = "done" /\ g[p].method = "DELETE" /\ g[p].code = 400
      /\ g[p].query = << "3", "x" >>
      /\ file.exists /\ Len(file.bytes) > 2

\* C17 (as claimed): store initialization failure is fatal.  When the initial
\* store setup of main has failed (initDB or the initial loadTasksFromFile
\* returned an error) main does not go on to serve requests.
C17_InitFailureFatal ==
    [][(/\ g["main"].branch = "MAIN"
        /\ \/ g["main"].loadErr
           \/ g["main"].saveErr
           \/ g["main"].fault # "none")
       => g'["main"].pc # "listen"]_vars

\* C18 (as claimed): the flat-file DELETE is atomic with respect to a
\* concurrent POST.  When a POST of T succeeded between the Load and the
\* write of a DELETE(id) that answers 200, the stored collection after both
\* is the result of the two in some order: T, or T without id.
C18_DeleteAtomic ==
    \A p \in Handlers :
      (/\ variant = "file"
       /\ g[p].pc = "done" /\ g[p].method = "DELETE" /\ g[p].code = 200
       /\ g[p].fault = "none"
       /\ g[p].staleBy.known)
      => LET T == g[p].staleBy.tasks IN
         Unmarshal(file.bytes).tasks
           \in { T, Slice(Without(T.items, g[p].taskID)) }

\* C19: lock discipline and progress of the flat-file variant.  The holder
\* of dataMutex is inside the locked part of loadTasksFromFile or of
\* saveTasksToFile, so a goroutine that goes for the lock does not hold it
\* (the seeding path calls saveTasksToFile before the Lock of the load) and
\* one that has returned, on any path, has released it; and under fair
\* scheduling every request that has begun gets its response.
C19_LockAndProgress ==
    /\ [](\A p \in Procs :
            /\ dataMutex = p => g[p].pc \in {"load_parse", "save_open", "save_write"}
            /\ g[p].pc \in {"load_lock", "save_lock"} => dataMutex # p)
    /\ \A p \in Handlers :
         (g[p].pc \notin {"idle", "done"}) ~> (g[p].pc = "done")

\* C19 witness: a request waits for dataMutex while the goroutine of another
\* request holds it on the seeding path of its load.
C19_Witness ==
    /\ g["g1"].pc \in {"load_lock", "save_lock"}
    /\ dataMutex = "g2"
    /\ g["g2"].saveFrom = "seed"

====
